---- MODULE Spec2Model ----
(***************************************************************************)
(* A model of the Calico datastore adapter (node/adapter/datastore.py):    *)
(* the DatastoreClient facade over an etcd (v2) key tree.                   *)
(*                                                                         *)
(* The store is a tree of nodes addressed by paths.  A key string          *)
(* "/calico/host/h1" is modelled by the sequence of its segments           *)
(* <<"calico", "host", "h1">>; etcd cleans trailing slashes, so the path   *)
(* templates that end in "/" name the same node as those that do not.      *)
(* Each etcd round trip (read, write, set, delete) is one atomic step.     *)
(***************************************************************************)
EXTENDS Integers, Sequences, FiniteSets, TLC

VARIABLES
    store,      \* the etcd tree: path -> [dir, value]
    index,      \* etcd's index, which names the in-order keys made by append
    last,       \* the last facade call that returned: [op, args, ret] and
                \* whether it wrote, the keys it overwrote and those it removed
    pc,         \* per client: the position inside the call it is running
    local,      \* per client: the call's arguments and local variables
    race        \* the calls running together: the store they started from
                \* and the calls, in the order they began

vars == <<store, index, last, pc, local, race>>

(***************************************************************************)
(* Bounds of the model.                                                    *)
(***************************************************************************)
\* Addresses are Width bits wide (netaddr: 32 for IPv4, 128 for IPv6).
Width == 8
\* The number of in-order keys etcd hands out before the model stops appending.
MaxIndex == 3

Clients == {1, 2}

(***************************************************************************)
(* Python values.                                                          *)
(***************************************************************************)
None == [kind |-> "None"]
Str(text) == [kind |-> "str", text |-> text]
\* Python truthiness of a stored value: None and "" are false.
Truthy(v) == v # None /\ v # Str("") /\ v # Str(<<>>)

RECURSIVE Pow2(_)
Pow2(n) == IF n = 0 THEN 1 ELSE 2 * Pow2(n - 1)

(***************************************************************************)
(* netaddr.IPNetwork: an address with a prefix length.  The object keeps   *)
(* the address as given (10.1.1.1/8 stays 10.1.1.1/8); equality and        *)
(* hashing are on (version, first, last).                                  *)
(***************************************************************************)
IPNetwork(version, ip, prefixlen) ==
    [version |-> version, ip |-> ip, prefixlen |-> prefixlen]

HostBits(net) == Pow2(Width - net.prefixlen)
First(net) == (net.ip \div HostBits(net)) * HostBits(net)
Last(net) == First(net) + HostBits(net) - 1
NetKey(net) == <<net.version, First(net), Last(net)>>
NetEq(a, b) == NetKey(a) = NetKey(b)

\* IPNetwork.cidr: the network with the host bits cleared.
cidr(net) == IPNetwork(net.version, First(net), net.prefixlen)

\* str(IPNetwork): "a.b/len" for IPv4 and "a:b/len" for IPv6, as a token
\* sequence <<separator, high half, low half, prefix length>>.
Half == Pow2(Width \div 2)
NetStr(net) ==
    Str(<<IF net.version = 4 THEN "." ELSE ":",
          net.ip \div Half, net.ip % Half, net.prefixlen>>)
\* IPNetwork(string): an address without "/len" is a network of one address.
NetParse(v) ==
    IPNetwork(IF v.text[1] = "." THEN 4 ELSE 6,
              v.text[2] * Half + v.text[3],
              IF Len(v.text) >= 4 THEN v.text[4] ELSE Width)

(***************************************************************************)
(* etcd paths for Calico.                                                  *)
(***************************************************************************)
hostname == "h1"

CONFIG_PATH == <<"calico", "config">>
HOSTS_PATH == <<"calico", "host">>
HOST_PATH(h) == HOSTS_PATH \o <<h>>
CONTAINER_PATH(h, container_id) ==
    HOST_PATH(h) \o <<"workload", "docker", container_id>>
LOCAL_ENDPOINTS_PATH(h, container_id) ==
    HOST_PATH(h) \o <<"workload", "docker", container_id, "endpoint">>
ALL_ENDPOINTS_PATH == HOSTS_PATH
ENDPOINT_PATH(h, container_id, endpoint_id) ==
    LOCAL_ENDPOINTS_PATH(h, container_id) \o <<endpoint_id>>
PROFILES_PATH == <<"calico", "policy", "profile">>
PROFILE_PATH(profile_id) == PROFILES_PATH \o <<profile_id>>
TAGS_PATH(profile_id) == PROFILE_PATH(profile_id) \o <<"tags">>
RULES_PATH(profile_id) == PROFILE_PATH(profile_id) \o <<"rules">>
IP_POOL_PATH(version) == <<"calico", "ipam", version, "pool">>
IP_POOLS_PATH(version) == <<"calico", "ipam", version, "pool">>

\* key.split("/"): a key starts with "/", so the first piece is empty.
Split(key) == <<"">> \o key

(***************************************************************************)
(* The etcd client.  A not-found is raised as a KeyError that carries the  *)
(* store's own message.                                                    *)
(***************************************************************************)
IsPrefix(p, q) == Len(p) <= Len(q) /\ SubSeq(q, 1, Len(p)) = p
Ancestors(p) == {SubSeq(p, 1, n) : n \in 1..(Len(p) - 1)}

Exists(s, p) == p \in DOMAIN s
Subtree(s, p) == {q \in DOMAIN s : IsPrefix(p, q)}
ChildKeys(s, p) == {q \in DOMAIN s : IsPrefix(p, q) /\ Len(q) = Len(p) + 1}

DirNode == [dir |-> TRUE, value |-> None]
LeafNode(v) == [dir |-> FALSE, value |-> v]

\* The store restricted to the keys in keep, then extended by add.
Restrict(s, keep) == [q \in keep |-> s[q]]
Extend(s, add) ==
    [q \in DOMAIN s \cup DOMAIN add |-> IF q \in DOMAIN add THEN add[q] ELSE s[q]]

\* etcd_client.write(path, value) / set(path, value): the leaf is written and
\* the directories above it are created when missing.
EtcdWrite(s, p, v) ==
    Extend([q \in DOMAIN s \cup Ancestors(p) |->
               IF q \in DOMAIN s THEN s[q] ELSE DirNode],
           [q \in {p} |-> LeafNode(v)])

\* etcd_client.write(path, None, dir=True)
EtcdMkdir(s, p) ==
    [q \in DOMAIN s \cup Ancestors(p) \cup {p} |->
        IF q \in DOMAIN s THEN s[q] ELSE DirNode]

\* etcd_client.write(path, value, append=True): a new in-order key under path.
EtcdAppend(s, p, v, idx) == EtcdWrite(s, p \o <<ToString(idx)>>, v)

\* etcd_client.delete(key): one leaf.
EtcdDelete(s, p) == Restrict(s, DOMAIN s \ {p})
\* etcd_client.delete(path, recursive=True, dir=True): the whole subtree.
EtcdDeleteTree(s, p) == Restrict(s, DOMAIN s \ Subtree(s, p))

\* A node of a read result: its key and value.
Node(s, q) == [key |-> q, value |-> s[q].value]
\* EtcdResult.children of read(path): the nodes directly under path; a result
\* without children yields itself.
children(s, p) ==
    IF ChildKeys(s, p) = {} THEN {Node(s, p)}
    ELSE {Node(s, q) : q \in ChildKeys(s, p)}
\* EtcdResult.leaves of read(path, recursive=True): every node under path that
\* has nothing below it (values and empty directories alike).
leaves_recursive(s, p) ==
    {Node(s, q) : q \in {r \in Subtree(s, p) : ChildKeys(s, r) = {}}}
\* EtcdResult.leaves of read(path): without recursive the answer holds only the
\* nodes directly under path.
leaves(s, p) == children(s, p)

(***************************************************************************)
(* What a facade call gives back.                                          *)
(***************************************************************************)
Return(v) == [status |-> "ok", value |-> v, exc |-> "", msg |-> <<>>]
Raise(exc, msg) == [status |-> "raise", value |-> None, exc |-> exc, msg |-> msg]
\* The KeyError the etcd client raises for a missing key.
EtcdKeyNotFound(p) == Raise("KeyError", <<"Key not found", p>>)
Outcome(s, i, r) == [store |-> s, index |-> i, ret |-> r]
\* A returned list or set, by its items, and a returned bool.
List(items) == [kind |-> "list", items |-> items]
Bool(b) == [kind |-> "bool", b |-> b]

(***************************************************************************)
(* IP pools.                                                               *)
(***************************************************************************)
Versions == {"v4", "v6"}

\* The pools a caller may pass: IPNetwork objects, normalized or not.
\* With Width = 8, 161 is the address 10.1 and 160 its /4 network 10.0.
PoolArgs ==
    {IPNetwork(4, 161, 4), IPNetwork(4, 160, 4), IPNetwork(4, 82, 6),
     IPNetwork(6, 161, 4)}

\* The entries of the pool directory that hold a CIDR (`if cidr:` skips the
\* directory itself, which an empty directory yields as its only child).
PoolEntries(s, version) ==
    IF ~Exists(s, IP_POOLS_PATH(version)) THEN {}
    ELSE {n \in children(s, IP_POOLS_PATH(version)) : Truthy(n.value)}

\* _get_ip_pools_with_keys: the dicts {IPNetwork: etcd key} the loop can
\* build.  A dict is keyed by IPNetwork equality (NetKey).  etcd lists the
\* children in no fixed order, so when several entries hold equal networks
\* the dict keeps the IPNetwork of whichever came first and the key of
\* whichever came last.  A missing path gives the empty dict.
get_ip_pools_with_keys(s, version) ==
    IF ~Exists(s, IP_POOLS_PATH(version)) THEN {<<>>}
    ELSE LET entries == {[pool |-> NetParse(n.value), key |-> n.key,
                          k |-> NetKey(NetParse(n.value))] :
                            n \in PoolEntries(s, version)}
             classes == {e.k : e \in entries}
             class(k) == {e \in entries : e.k = k}
             picks(k) ==
                 {[pool |-> x[1].pool, key |-> x[2].key] :
                     x \in {y \in class(k) \X class(k) :
                         y[1] # y[2] \/ Cardinality(class(k)) = 1}}
         IN  IF Cardinality(classes) = Cardinality(entries)
             THEN {[k \in classes |->
                      LET e == CHOOSE x \in entries : x.k = k
                      IN  [pool |-> e.pool, key |-> e.key]]}
             ELSE {d \in [classes -> UNION {picks(k) : k \in classes}] :
                     \A k \in classes : d[k] \in picks(k)}

\* get_ip_pools: the lists of pools it can return (as sets: the callers only
\* test membership).
get_ip_pools(s, version) ==
    {{d[k].pool : k \in DOMAIN d} : d \in get_ip_pools_with_keys(s, version)}

\* `pool in pools` compares with IPNetwork.__eq__.
InPools(pool, pools) == \E q \in pools : NetEq(q, pool)

\* Mutants of the append: one that writes the pool as it was given, without
\* clearing the host bits, and one that appends only while the pool is still
\* missing (as a compare-and-set would).
add_ip_pool_write_as_given(s, i, version, pool) ==
    [store |-> EtcdAppend(s, IP_POOL_PATH(version), NetStr(pool), i),
     index |-> i + 1, ret |-> Return(None)]
add_ip_pool_write_if_absent(s, i, version, pool) ==
    IF \E n \in PoolEntries(s, version) : NetEq(NetParse(n.value), pool)
    THEN [store |-> s, index |-> i, ret |-> Return(None)]
    ELSE [store |-> EtcdAppend(s, IP_POOL_PATH(version), NetStr(cidr(pool)), i),
          index |-> i + 1, ret |-> Return(None)]

\* add_ip_pool, after the check found the pool missing: the append.
add_ip_pool_write(s, i, version, pool) ==
    Outcome(EtcdAppend(s, IP_POOL_PATH(version), NetStr(cidr(pool)), i),
            i + 1, Return(None))

\* Mutant of add_ip_pool: the append without the check for an existing pool.
add_ip_pool_no_check(s, i, version, pool) ==
    {[store |-> EtcdAppend(s, IP_POOL_PATH(version), NetStr(cidr(pool)), i),
      index |-> i + 1, ret |-> Return(None)]}

\* add_ip_pool(version, pool)
add_ip_pool(s, i, version, pool) ==
    {IF InPools(cidr(pool), pools)
        THEN Outcome(s, i, Return(None))
        ELSE add_ip_pool_write(s, i, version, pool) :
     pools \in get_ip_pools(s, version)}

NotConfigured(pool) == Raise("KeyError", <<"is not a configured IP pool.", pool>>)

\* Mutants of the delete: one that lets the KeyError of the lookup leave as it
\* is, and one that deletes the pool directory instead of the pool's key.
del_ip_pool_delete_raw_error(s, i, pools, pool) ==
    LET k == NetKey(cidr(pool))
    IN  IF k \notin DOMAIN pools \/ ~Exists(s, pools[k].key)
        THEN [store |-> s, index |-> i, ret |-> Raise("KeyError", <<k>>)]
        ELSE [store |-> EtcdDelete(s, pools[k].key), index |-> i,
              ret |-> Return(None)]
del_ip_pool_delete_whole_dir(s, i, pools, pool) ==
    LET k == NetKey(cidr(pool))
    IN  IF k \notin DOMAIN pools \/ ~Exists(s, pools[k].key)
        THEN [store |-> s, index |-> i, ret |-> NotConfigured(pool)]
        ELSE [store |-> EtcdDeleteTree(s, SubSeq(pools[k].key, 1,
                                                 Len(pools[k].key) - 1)),
              index |-> i, ret |-> Return(None)]

\* del_ip_pool, given the dict it read: the lookup and the delete.  A KeyError
\* from either is raised again with the better message.
del_ip_pool_delete(s, i, pools, pool) ==
    LET k == NetKey(cidr(pool))
    IN  IF k \notin DOMAIN pools \/ ~Exists(s, pools[k].key)
        THEN Outcome(s, i, NotConfigured(pool))
        ELSE Outcome(EtcdDelete(s, pools[k].key), i, Return(None))

\* del_ip_pool(version, pool)
del_ip_pool(s, i, version, pool) ==
    {del_ip_pool_delete(s, i, pools, pool) :
     pools \in get_ip_pools_with_keys(s, version)}

(***************************************************************************)
(* Rules and profiles (groups).                                            *)
(***************************************************************************)
Json(obj) == [kind |-> "json", obj |-> obj]

ALLOWED_KEYS ==
    {"protocol", "src_tag", "src_ports", "src_net", "dst_tag", "dst_ports",
     "dst_net", "icmp_type", "action"}

\* Mutant of Rule: __setitem__ takes any key.
Rule_any_key(kwargs) == Return(Json(kwargs))

\* Rule(**kwargs): __setitem__ refuses a key outside ALLOWED_KEYS.
Rule(kwargs) ==
    IF DOMAIN kwargs \subseteq ALLOWED_KEYS
    THEN Return(Json(kwargs))
    ELSE Raise("KeyError", <<"is not allowed on Rule.", DOMAIN kwargs \ ALLOWED_KEYS>>)

\* Rules(id, inbound_rules, outbound_rules).to_json()
Rules(id, inbound_rules, outbound_rules) ==
    Json([id |-> id, inbound_rules |-> inbound_rules,
          outbound_rules |-> outbound_rules])

\* group_exists(name)
group_exists(s, name) == Exists(s, PROFILE_PATH(name))

\* Mutant of create_group: tags and rules that exist are kept.
create_group_keep_existing(s, i, name) ==
    LET rules == Rules(name, <<[src_tag |-> name], [action |-> "deny"]>>,
                       <<[action |-> "allow"]>>)
        s1 == IF Exists(s, TAGS_PATH(name)) THEN s
              ELSE EtcdWrite(s, TAGS_PATH(name), Json(<<name>>))
        s2 == IF Exists(s1, RULES_PATH(name)) THEN s1
              ELSE EtcdWrite(s1, RULES_PATH(name), rules)
    IN  {[store |-> s2, index |-> i, ret |-> Return(None)]}

\* create_group(name): the tags '["<name>"]' and the default rules are written
\* over whatever the two keys held.
create_group(s, i, name) ==
    LET default_deny == Rule([action |-> "deny"]).value.obj
        accept_self == Rule([src_tag |-> name]).value.obj
        default_allow == Rule([action |-> "allow"]).value.obj
        rules == Rules(name, <<accept_self, default_deny>>, <<default_allow>>)
        s1 == EtcdWrite(s, PROFILE_PATH(name) \o <<"tags">>, Json(<<name>>))
        s2 == EtcdWrite(s1, PROFILE_PATH(name) \o <<"rules">>, rules)
    IN  {Outcome(s2, i, Return(None))}

\* Mutant of delete_group: only the tags of the profile are deleted.
delete_group_tags_only(s, i, name) ==
    IF ~Exists(s, TAGS_PATH(name))
    THEN {Outcome(s, i, EtcdKeyNotFound(TAGS_PATH(name)))}
    ELSE {Outcome(EtcdDelete(s, TAGS_PATH(name)), i, Return(None))}

\* Mutant of delete_group: the endpoints that reference the profile lose
\* their profile_id with it.
delete_group_with_members(s, i, name) ==
    IF ~Exists(s, PROFILE_PATH(name))
    THEN {Outcome(s, i, EtcdKeyNotFound(PROFILE_PATH(name)))}
    ELSE LET s1 == EtcdDeleteTree(s, PROFILE_PATH(name))
             member(p) == /\ ~s1[p].dir
                          /\ Len(p) = 8
                          /\ SubSeq(p, 1, Len(HOSTS_PATH)) = HOSTS_PATH
                          /\ s1[p].value.obj.profile_id = Str(name)
         IN  {Outcome([p \in DOMAIN s1 |->
                          IF member(p)
                          THEN LeafNode(Json([s1[p].value.obj EXCEPT
                                                  !.profile_id = None]))
                          ELSE s1[p]],
                      i, Return(None))}

\* delete_group(name): the recursive delete is not guarded, so the KeyError
\* of a missing profile leaves the call.
delete_group(s, i, name) ==
    IF ~Exists(s, PROFILE_PATH(name))
    THEN {Outcome(s, i, EtcdKeyNotFound(PROFILE_PATH(name)))}
    ELSE {Outcome(EtcdDeleteTree(s, PROFILE_PATH(name)), i, Return(None))}

\* get_groups(): packed[4] of every listed key with more than four pieces.
get_groups(s) ==
    IF ~Exists(s, PROFILES_PATH) THEN {}
    ELSE {Split(child.key)[5] :
            child \in {n \in leaves_recursive(s, PROFILES_PATH) :
                          Len(Split(n.key)) > 4}}

(***************************************************************************)
(* Endpoints.                                                              *)
(***************************************************************************)
IF_PREFIX == "cali"

\* Endpoint(ep_id, state, mac, felix_host): no profile, networks or gateways.
Endpoint(ep_id, state, mac) ==
    [ep_id |-> ep_id, state |-> state, mac |-> mac, profile_id |-> None,
     ipv4_nets |-> {}, ipv6_nets |-> {},
     ipv4_gateway |-> None, ipv6_gateway |-> None]

\* netaddr.IPAddress and its str(): <<separator, high half, low half>>.
IPAddress(version, ip) == [version |-> version, ip |-> ip]
AddrStr(a) ==
    Str(<<IF a.version = 4 THEN "." ELSE ":", a.ip \div Half, a.ip % Half>>)
ValidAddrText(v) ==
    /\ v.kind = "str"
    /\ DOMAIN v.text = 1..3
    /\ v.text[1] \in {".", ":"}
AddrParse(v) ==
    IPAddress(IF v.text[1] = "." THEN 4 ELSE 6, v.text[2] * Half + v.text[3])
ValidNetText(v) ==
    /\ v.kind = "str"
    /\ DOMAIN v.text \in {1..3, 1..4}
    /\ v.text[1] \in {".", ":"}

\* The truth test of `if self.ipv4_gateway`: None is false, and so is an
\* IPAddress whose numerical value is zero (netaddr's __nonzero__).
AddrTruthy(a) == a # None /\ a.ip # 0

\* Endpoint.to_json(): ep_id[:11] is the whole id for the short ids used here.
to_json(ep) ==
    Json([state |-> ep.state,
          name |-> <<IF_PREFIX, ep.ep_id>>,
          mac |-> ep.mac,
          profile_id |-> ep.profile_id,
          ipv4_nets |-> {NetStr(net) : net \in ep.ipv4_nets},
          ipv6_nets |-> {NetStr(net) : net \in ep.ipv6_nets},
          ipv4_gateway |-> IF AddrTruthy(ep.ipv4_gateway)
                           THEN AddrStr(ep.ipv4_gateway) ELSE None,
          ipv6_gateway |-> IF AddrTruthy(ep.ipv6_gateway)
                           THEN AddrStr(ep.ipv6_gateway) ELSE None])

\* Mutant of from_json: the IPv4 networks are added to ipv6_nets and the IPv6
\* networks to ipv4_nets.
from_json_nets_swapped(ep_id, json_str) ==
    LET json_dict == json_str.obj
    IN  Return(
            [ep_id |-> ep_id,
             state |-> json_dict.state,
             mac |-> json_dict.mac,
             profile_id |-> json_dict.profile_id,
             ipv4_nets |-> {NetParse(net) : net \in json_dict.ipv6_nets},
             ipv6_nets |-> {NetParse(net) : net \in json_dict.ipv4_nets},
             ipv4_gateway |-> IF Truthy(json_dict.ipv4_gateway)
                              THEN AddrParse(json_dict.ipv4_gateway) ELSE None,
             ipv6_gateway |-> IF Truthy(json_dict.ipv6_gateway)
                              THEN AddrParse(json_dict.ipv6_gateway) ELSE None])

\* Mutant of from_json: the mac is not read.
from_json_without_mac(ep_id, json_str) ==
    LET json_dict == json_str.obj
    IN  Return(
            [ep_id |-> ep_id,
             state |-> json_dict.state,
             mac |-> "",
             profile_id |-> json_dict.profile_id,
             ipv4_nets |-> {NetParse(net) : net \in json_dict.ipv4_nets},
             ipv6_nets |-> {NetParse(net) : net \in json_dict.ipv6_nets},
             ipv4_gateway |-> IF Truthy(json_dict.ipv4_gateway)
                              THEN AddrParse(json_dict.ipv4_gateway) ELSE None,
             ipv6_gateway |-> IF Truthy(json_dict.ipv6_gateway)
                              THEN AddrParse(json_dict.ipv6_gateway) ELSE None])

\* Endpoint.from_json(ep_id, json_str): the fields are read in the order of
\* the code; a missing field is a KeyError, a network or gateway string that
\* netaddr cannot parse is an AddrFormatError.
from_json(ep_id, json_str) ==
    LET json_dict == json_str.obj
        has(field) == field \in DOMAIN json_dict
        missing(field) == Raise("KeyError", <<"missing field", field>>)
        invalid == Raise("AddrFormatError", <<"invalid address">>)
    IN  IF ~has("state") THEN missing("state")
        ELSE IF ~has("mac") THEN missing("mac")
        ELSE IF ~has("ipv4_nets") THEN missing("ipv4_nets")
        ELSE IF \E net \in json_dict.ipv4_nets : ~ValidNetText(net) THEN invalid
        ELSE IF ~has("ipv6_nets") THEN missing("ipv6_nets")
        ELSE IF \E net \in json_dict.ipv6_nets : ~ValidNetText(net) THEN invalid
        ELSE IF ~has("ipv4_gateway") THEN missing("ipv4_gateway")
        ELSE IF Truthy(json_dict.ipv4_gateway)
                /\ ~ValidAddrText(json_dict.ipv4_gateway) THEN invalid
        ELSE IF ~has("ipv6_gateway") THEN missing("ipv6_gateway")
        ELSE IF Truthy(json_dict.ipv6_gateway)
                /\ ~ValidAddrText(json_dict.ipv6_gateway) THEN invalid
        ELSE IF ~has("profile_id") THEN missing("profile_id")
        ELSE Return(
            [ep_id |-> ep_id,
             state |-> json_dict.state,
             mac |-> json_dict.mac,
             profile_id |-> json_dict.profile_id,
             ipv4_nets |-> {NetParse(net) : net \in json_dict.ipv4_nets},
             ipv6_nets |-> {NetParse(net) : net \in json_dict.ipv6_nets},
             ipv4_gateway |-> IF Truthy(json_dict.ipv4_gateway)
                              THEN AddrParse(json_dict.ipv4_gateway) ELSE None,
             ipv6_gateway |-> IF Truthy(json_dict.ipv6_gateway)
                              THEN AddrParse(json_dict.ipv6_gateway) ELSE None])

\* Mutant of get_ep_id_from_cont: the KeyError of the read is not replaced.
get_ep_id_from_cont_raw_error(s, container_id) ==
    LET ep_path == LOCAL_ENDPOINTS_PATH(hostname, container_id)
    IN  IF ~Exists(s, ep_path) THEN {EtcdKeyNotFound(ep_path)}
        ELSE {Return(Str(Split(endpoint.key)[9])) : endpoint \in leaves(s, ep_path)}

\* get_ep_id_from_cont(container_id): the id of whichever endpoint the
\* listing yields first; a missing listing is raised with a better message.
ContainerNotFound(container_id) ==
    Raise("KeyError", <<"Container with ID was not found.", container_id>>)
get_ep_id_from_cont(s, container_id) ==
    LET ep_path == LOCAL_ENDPOINTS_PATH(hostname, container_id)
    IN  IF ~Exists(s, ep_path) THEN {ContainerNotFound(container_id)}
        ELSE {IF Len(Split(endpoint.key)) < 9
                 THEN Raise("ValueError", <<"need more than 8 values to unpack">>)
                 ELSE Return(Str(Split(endpoint.key)[9])) :
              endpoint \in leaves(s, ep_path)}

\* get_endpoint(hostname, container_id, endpoint_id)
get_endpoint(s, h, container_id, endpoint_id) ==
    LET ep_path == ENDPOINT_PATH(h, container_id, endpoint_id)
    IN  IF ~Exists(s, ep_path) THEN EtcdKeyNotFound(ep_path)
        ELSE from_json(endpoint_id, s[ep_path].value)

\* Mutant of set_endpoint: the write is an update of a key that exists.
set_endpoint_if_exists(s, h, container_id, endpoint) ==
    IF Exists(s, ENDPOINT_PATH(h, container_id, endpoint.ep_id))
    THEN EtcdWrite(s, ENDPOINT_PATH(h, container_id, endpoint.ep_id),
                   to_json(endpoint))
    ELSE s

\* set_endpoint(hostname, container_id, endpoint)
set_endpoint(s, h, container_id, endpoint) ==
    EtcdWrite(s, ENDPOINT_PATH(h, container_id, endpoint.ep_id), to_json(endpoint))

\* The body shared by add_workload_to_group and remove_workload_from_group:
\* resolve the endpoint id, read the endpoint, change its profile, write it.
change_profile(s, i, profile_id, container_id) ==
    {IF r.status = "raise" THEN Outcome(s, i, r)
     ELSE LET got == get_endpoint(s, hostname, container_id, r.value.text)
          IN  IF got.status = "raise" THEN Outcome(s, i, got)
              ELSE Outcome(set_endpoint(s, hostname, container_id,
                               [got.value EXCEPT !.profile_id = profile_id]),
                           i, Return(None)) :
     r \in get_ep_id_from_cont(s, container_id)}

\* add_workload_to_group(group_name, container_id)
add_workload_to_group(s, i, group_name, container_id) ==
    change_profile(s, i, Str(group_name), container_id)

\* remove_workload_from_group(container_id)
remove_workload_from_group(s, i, container_id) ==
    change_profile(s, i, None, container_id)

\* Mutant of the listing: only the local host's subtree is read.
EndpointLeaves_local_host(s) ==
    {child \in leaves_recursive(s, HOST_PATH(hostname)) :
        Len(Split(child.key)) = 9}

\* The leaves of the hosts listing whose key has nine pieces.
EndpointLeaves(s) ==
    {child \in leaves_recursive(s, ALL_ENDPOINTS_PATH) :
        Len(Split(child.key)) = 9}

\* Mutant of get_group_members: the profile_id of an endpoint is not compared.
get_group_members_any_profile(s, name) ==
    IF ~Exists(s, ALL_ENDPOINTS_PATH) THEN Return(List(<<>>))
    ELSE LET ids == {Split(child.key)[9] : child \in EndpointLeaves(s)}
         IN  Return(List([id \in ids |->
                 Cardinality({child \in EndpointLeaves(s) :
                                 Split(child.key)[9] = id})]))

\* get_group_members(name): the ids of the decoded endpoints whose profile_id
\* is name, as a list in no fixed order: id -> number of times it is listed.
\* A leaf that does not decode ends the call with the decode error.
get_group_members(s, name) ==
    IF ~Exists(s, ALL_ENDPOINTS_PATH) THEN Return(List(<<>>))
    ELSE LET decoded(child) == from_json(Split(child.key)[9], child.value)
             bad == {child \in EndpointLeaves(s) : decoded(child).status = "raise"}
             hits == {child \in EndpointLeaves(s) :
                         decoded(child).value.profile_id = Str(name)}
             ids == {decoded(child).value.ep_id : child \in hits}
         IN  IF bad # {} THEN decoded(CHOOSE child \in bad : TRUE)
             ELSE Return(List([id \in ids |->
                     Cardinality({child \in hits :
                                     decoded(child).value.ep_id = id})]))

(***************************************************************************)
(* The calls, one at a time: each action is one whole facade call.         *)
(***************************************************************************)
Call(op, args, o) ==
    /\ o.index <= MaxIndex + 1
    /\ store' = o.store
    /\ index' = o.index
    /\ last' = [op |-> op, args |-> args, ret |-> o.ret,
                wrote |-> o.store # store,
                overwrote |-> {q \in DOMAIN store \cap DOMAIN o.store :
                                  store[q] # o.store[q]},
                removed |-> DOMAIN store \ DOMAIN o.store]
    /\ UNCHANGED <<pc, local, race>>

AddIpPool ==
    \E version \in Versions, pool \in PoolArgs :
        \E o \in add_ip_pool(store, index, version, pool) :
            Call("add_ip_pool", <<version, pool>>, o)

DelIpPool ==
    \E version \in Versions, pool \in PoolArgs :
        \E o \in del_ip_pool(store, index, version, pool) :
            Call("del_ip_pool", <<version, pool>>, o)

GetIpPools ==
    \E version \in Versions :
        \E pools \in get_ip_pools(store, version) :
            \E o \in {Outcome(store, index, Return(List(pools)))} :
                Call("get_ip_pools", <<version>>, o)

(***************************************************************************)
(* The arguments the calls are tried with.                                 *)
(***************************************************************************)
Groups == {"G1", "G2"}
GroupNames == {"G1", "G2", "G3"}
Containers == {"c1", "c2", "c3"}
\* (hostname, container id, endpoint id) of the endpoints that get written:
\* two on one container, the same id on two hosts and in two containers.
EndpointSlots ==
    {<<"h1", "c1", "e1">>, <<"h1", "c1", "e2">>, <<"h1", "c2", "e2">>,
     <<"h2", "c1", "e1">>}
ProfileIds == {None} \cup {Str(g) : g \in Groups}
EndpointArg(ep_id, profile_id) ==
    [Endpoint(ep_id, "active", "m1") EXCEPT
        !.profile_id = profile_id, !.ipv4_nets = {IPNetwork(4, 161, 8)}]

CreateGroup ==
    \E name \in GroupNames :
        \E o \in create_group(store, index, name) :
            Call("create_group", <<name>>, o)

DeleteGroup ==
    \E name \in GroupNames :
        \E o \in delete_group(store, index, name) :
            Call("delete_group", <<name>>, o)

GroupExists ==
    \E name \in GroupNames :
        \E o \in {Outcome(store, index, Return(Bool(group_exists(store, name))))} :
            Call("group_exists", <<name>>, o)

GetGroups ==
    \E o \in {Outcome(store, index, Return(List(get_groups(store))))} :
        Call("get_groups", <<>>, o)

SetEndpoint ==
    \E slot \in EndpointSlots, profile_id \in ProfileIds :
        \E o \in {Outcome(set_endpoint(store, slot[1], slot[2],
                                        EndpointArg(slot[3], profile_id)),
                           index, Return(None))} :
            Call("set_endpoint", <<slot, profile_id>>, o)

AddWorkloadToGroup ==
    \E group_name \in Groups, container_id \in Containers :
        \E o \in add_workload_to_group(store, index, group_name, container_id) :
            Call("add_workload_to_group", <<group_name, container_id>>, o)

RemoveWorkloadFromGroup ==
    \E container_id \in Containers :
        \E o \in remove_workload_from_group(store, index, container_id) :
            Call("remove_workload_from_group", <<container_id>>, o)

GetGroupMembers ==
    \E name \in Groups :
        \E o \in {Outcome(store, index, get_group_members(store, name))} :
            Call("get_group_members", <<name>>, o)

GetEpIdFromCont ==
    \E container_id \in Containers :
        \E o \in {Outcome(store, index, r) :
                     r \in get_ep_id_from_cont(store, container_id)} :
            Call("get_ep_id_from_cont", <<container_id>>, o)

(***************************************************************************)
(* Initial stores.  The store is shared with the other Calico tools, so a  *)
(* call may find data there that it did not write itself.                  *)
(***************************************************************************)
EmptyStore == <<>>
Idle == [op |-> "idle"]
NoRace == [start |-> EmptyStore, calls |-> <<>>]
NoCall ==
    [op |-> "none", args |-> <<>>, ret |-> Return(None), wrote |-> FALSE,
     overwrote |-> {}, removed |-> {}]

\* A profile G1 whose tags and rules were edited after its creation.
EditedProfileStore ==
    EtcdWrite(
        EtcdWrite(EmptyStore, TAGS_PATH("G1"), Json(<<"G1", "web">>)),
        RULES_PATH("G1"),
        Rules("G1", <<[src_net |-> "10.0/4"], [src_tag |-> "G1"], [action |-> "deny"]>>,
              <<[action |-> "deny"]>>))

\* A store with a profile and an endpoint in it, and no pool.
SeedStore ==
    set_endpoint(EditedProfileStore, "h1", "c1", EndpointArg("e1", Str("G1")))

InitWith(stores) ==
    /\ store \in stores
    /\ index = 1
    /\ last = NoCall
    /\ pc = [c \in Clients |-> "idle"]
    /\ local = [c \in Clients |-> Idle]
    /\ race = NoRace

InitPools == InitWith({EmptyStore, SeedStore})
NextPools == AddIpPool \/ DelIpPool \/ GetIpPools

InitGroups == InitWith({EmptyStore, EditedProfileStore})
NextGroups == CreateGroup \/ DeleteGroup \/ GroupExists \/ GetGroups
SpecGroups == InitGroups /\ [][NextGroups]_vars

InitEndpoints == InitWith({EmptyStore})
NextEndpoints ==
    \/ SetEndpoint
    \/ AddWorkloadToGroup
    \/ RemoveWorkloadFromGroup
    \/ GetGroupMembers
    \/ GetEpIdFromCont
SpecEndpoints == InitEndpoints /\ [][NextEndpoints]_vars

SpecPools == InitPools /\ [][NextPools]_vars

(***************************************************************************)
(* The calls of several clients, interleaved: each action is one round     *)
(* trip to etcd of one client's call, with the local work that follows it. *)
(* local[c] holds the call (op, args) and tmp, what the call has read.     *)
(***************************************************************************)
Dict(d) == [kind |-> "dict", d |-> d]
Running(op, args) == [op |-> op, args |-> args, tmp |-> None]
\* The container and the new profile_id of a profile change.
ContainerOf(l) == IF l.op = "add_workload_to_group" THEN l.args[2] ELSE l.args[1]
ProfileOf(l) == IF l.op = "add_workload_to_group" THEN Str(l.args[1]) ELSE None

Goto(s, i, p, l) == [store |-> s, index |-> i, pc |-> p, local |-> l, ret |-> Return(None)]
Done(s, i, l, r) == [store |-> s, index |-> i, pc |-> "idle", local |-> l, ret |-> r]

\* What one round trip of a call at position p can lead to.
Steps(s, i, p, l) ==
    CASE p = "check" ->      \* add_ip_pool: the read of the pools and the test
            {IF InPools(cidr(l.args[2]), pools)
                THEN Done(s, i, l, Return(None))
                ELSE Goto(s, i, "append", l) :
             pools \in get_ip_pools(s, l.args[1])}
      [] p = "append" ->     \* add_ip_pool: the write
            {Done(o.store, o.index, l, o.ret) :
             o \in {add_ip_pool_write(s, i, l.args[1], l.args[2])}}
      [] p = "read" ->       \* del_ip_pool: the read of the pools and keys
            {Goto(s, i, "delete", [l EXCEPT !.tmp = Dict(pools)]) :
             pools \in get_ip_pools_with_keys(s, l.args[1])}
      [] p = "delete" ->     \* del_ip_pool: the lookup and the delete
            {Done(o.store, o.index, l, o.ret) :
             o \in {del_ip_pool_delete(s, i, l.tmp.d, l.args[2])}}
      [] p = "resolve" ->    \* a profile change: get_ep_id_from_cont
            {IF r.status = "raise" THEN Done(s, i, l, r)
                ELSE Goto(s, i, "get", [l EXCEPT !.tmp = r.value]) :
             r \in get_ep_id_from_cont(s, ContainerOf(l))}
      [] p = "get" ->        \* a profile change: get_endpoint, then the change
            {IF got.status = "raise" THEN Done(s, i, l, got)
                ELSE Goto(s, i, "set",
                          [l EXCEPT !.tmp = [got.value EXCEPT
                                                !.profile_id = ProfileOf(l)]]) :
             got \in {get_endpoint(s, hostname, ContainerOf(l), l.tmp.text)}}
      [] p = "set" ->        \* a profile change: set_endpoint
            {Done(set_endpoint(s, hostname, ContainerOf(l), l.tmp), i, l,
                  Return(None))}
      [] p = "put" ->        \* set_endpoint(hostname, container_id, endpoint)
            {Done(set_endpoint(s, l.args[1], l.args[2], l.args[3]), i, l,
                  Return(None))}
      [] p = "unlink" ->     \* remove_container: the recursive delete
            {IF ~Exists(s, CONTAINER_PATH(hostname, l.args[1]))
                THEN Done(s, i, l,
                          EtcdKeyNotFound(CONTAINER_PATH(hostname, l.args[1])))
                ELSE Done(EtcdDeleteTree(s, CONTAINER_PATH(hostname, l.args[1])),
                          i, l, Return(None))}
      [] p = "unhost" ->     \* remove_host: the recursive delete
            {Done(IF Exists(s, HOST_PATH(hostname))
                     THEN EtcdDeleteTree(s, HOST_PATH(hostname)) ELSE s,
                  i, l, Return(None))}
      [] p = "config" ->     \* create_global_config: the read of the directory
            {IF Exists(s, CONFIG_PATH) THEN Done(s, i, l, Return(None))
                ELSE Goto(s, i, "prefix", l)}
      [] p = "prefix" ->     \* create_global_config: set InterfacePrefix
            {Goto(EtcdWrite(s, CONFIG_PATH \o <<"InterfacePrefix">>,
                            Str(<<IF_PREFIX>>)),
                  i, "severity", l)}
      [] p = "severity" ->   \* create_global_config: set LogSeverityFile
            {Done(EtcdWrite(s, CONFIG_PATH \o <<"LogSeverityFile">>,
                            Str(<<"DEBUG">>)),
                  i, l, Return(None))}
      [] p = "wipe" ->       \* remove_all_data: the recursive delete
            {Done(IF Exists(s, <<"calico">>)
                     THEN EtcdDeleteTree(s, <<"calico">>) ELSE s,
                  i, l, Return(None))}

\* The position a call starts at.
FirstPc(op) ==
    CASE op = "add_ip_pool" -> "check"
      [] op = "del_ip_pool" -> "read"
      [] op \in {"add_workload_to_group", "remove_workload_from_group"} -> "resolve"
      [] op = "set_endpoint" -> "put"
      [] op = "create_global_config" -> "config"
      [] op = "remove_container" -> "unlink"
      [] op = "remove_host" -> "unhost"
      [] op = "remove_all_data" -> "wipe"

Quiescent == \A c \in Clients : pc[c] = "idle"

\* Client c begins a call.  The calls that overlap form a race: it starts when
\* a call begins while no other is running, and each client makes one call in it.
Begin(c, op, args) ==
    /\ pc' = [pc EXCEPT ![c] = FirstPc(op)]
    /\ local' = [local EXCEPT ![c] = Running(op, args)]
    /\ race' = IF Quiescent
               THEN [start |-> store, calls |-> <<[op |-> op, args |-> args]>>]
               ELSE [race EXCEPT !.calls = Append(@, [op |-> op, args |-> args])]
    /\ ~Quiescent => Len(race.calls) < Cardinality(Clients)
    /\ UNCHANGED <<store, index, last>>

\* Client c makes the round trip of position p.
StepAt(c, p) ==
    \E o \in Steps(store, index, p, local[c]) :
        /\ o.index <= MaxIndex + 1
        /\ store' = o.store
        /\ index' = o.index
        /\ pc' = [pc EXCEPT ![c] = o.pc]
        /\ local' = [local EXCEPT ![c] = IF o.pc = "idle" THEN Idle ELSE o.local]
        /\ last' = IF o.pc = "idle"
                   THEN [op |-> local[c].op, args |-> local[c].args, ret |-> o.ret,
                         wrote |-> o.store # store,
                         overwrote |-> {q \in DOMAIN store \cap DOMAIN o.store :
                                           store[q] # o.store[q]},
                         removed |-> DOMAIN store \ DOMAIN o.store]
                   ELSE last
        /\ UNCHANGED race

\* Every store that two calls, started together at positions k1 and k2, can
\* end with, over all the interleavings of their round trips.
RECURSIVE Finals(_, _, _, _)
Finals(s, i, k1, k2) ==
    IF k1.pc = "idle" /\ k2.pc = "idle" THEN {s}
    ELSE (IF k1.pc = "idle" THEN {}
          ELSE UNION {Finals(o.store, o.index, [pc |-> o.pc, local |-> o.local], k2) :
                        o \in Steps(s, i, k1.pc, k1.local)})
         \cup
         (IF k2.pc = "idle" THEN {}
          ELSE UNION {Finals(o.store, o.index, k1, [pc |-> o.pc, local |-> o.local]) :
                        o \in Steps(s, i, k2.pc, k2.local)})
Started(call) == [pc |-> FirstPc(call.op), local |-> Running(call.op, call.args)]
NotStarted == [pc |-> "idle", local |-> Idle]

\* Every store a call can end with when it runs alone, as one whole call.
Apply(s, i, call) ==
    CASE call.op = "add_ip_pool" ->
            add_ip_pool(s, i, call.args[1], call.args[2])
      [] call.op = "del_ip_pool" ->
            del_ip_pool(s, i, call.args[1], call.args[2])
      [] call.op = "add_workload_to_group" ->
            add_workload_to_group(s, i, call.args[1], call.args[2])
      [] call.op = "remove_workload_from_group" ->
            remove_workload_from_group(s, i, call.args[1])
      [] call.op = "set_endpoint" ->
            {Outcome(set_endpoint(s, call.args[1][1], call.args[1][2],
                                  EndpointArg(call.args[1][3], call.args[2])),
                     i, Return(None))}
\* The stores the two serial orders of calls a and b can end with.
SerialStores(s, i, a, b) ==
    {o2.store : o2 \in UNION {Apply(o1.store, o1.index, b) : o1 \in Apply(s, i, a)}}
    \cup
    {o2.store : o2 \in UNION {Apply(o1.store, o1.index, a) : o1 \in Apply(s, i, b)}}

\* The pools the interleaved add_ip_pool calls are tried with.
RacePoolArgs == {IPNetwork(4, 161, 4), IPNetwork(4, 160, 4), IPNetwork(4, 82, 6)}

StartAddIpPool ==
    \E c \in Clients, pool \in RacePoolArgs :
        pc[c] = "idle" /\ Begin(c, "add_ip_pool", <<"v4", pool>>)
StartDelIpPool ==
    \E c \in Clients, pool \in RacePoolArgs :
        pc[c] = "idle" /\ Begin(c, "del_ip_pool", <<"v4", pool>>)
AddIpPoolCheck == \E c \in Clients : pc[c] = "check" /\ StepAt(c, "check")
AddIpPoolAppend == \E c \in Clients : pc[c] = "append" /\ StepAt(c, "append")
DelIpPoolRead == \E c \in Clients : pc[c] = "read" /\ StepAt(c, "read")
DelIpPoolDelete == \E c \in Clients : pc[c] = "delete" /\ StepAt(c, "delete")

StartAddWorkloadToGroup ==
    \E c \in Clients, group_name \in Groups, container_id \in Containers :
        pc[c] = "idle" /\ Begin(c, "add_workload_to_group", <<group_name, container_id>>)
StartRemoveWorkloadFromGroup ==
    \E c \in Clients, container_id \in Containers :
        pc[c] = "idle" /\ Begin(c, "remove_workload_from_group", <<container_id>>)
ResolveEndpointId == \E c \in Clients : pc[c] = "resolve" /\ StepAt(c, "resolve")
ProfileGetEndpoint == \E c \in Clients : pc[c] = "get" /\ StepAt(c, "get")
ProfileSetEndpoint == \E c \in Clients : pc[c] = "set" /\ StepAt(c, "set")

InitPoolsRace == InitWith({EmptyStore})
NextPoolsRace ==
    \/ StartAddIpPool
    \/ StartDelIpPool
    \/ AddIpPoolCheck
    \/ AddIpPoolAppend
    \/ DelIpPoolRead
    \/ DelIpPoolDelete
SpecPoolsRace == InitPoolsRace /\ [][NextPoolsRace]_vars

\* Stores with endpoints on the local host: one on c1; two on c1; one on c1
\* and one on c2.
RaceStores ==
    LET one == set_endpoint(EmptyStore, "h1", "c1", EndpointArg("e1", Str("G1")))
    IN  {one,
         set_endpoint(one, "h1", "c1", EndpointArg("e2", None)),
         set_endpoint(one, "h1", "c2", EndpointArg("e2", Str("G2")))}

InitEndpointsRace == InitWith(RaceStores)
NextEndpointsRace ==
    \/ StartAddWorkloadToGroup
    \/ StartRemoveWorkloadFromGroup
    \/ ResolveEndpointId
    \/ ProfileGetEndpoint
    \/ ProfileSetEndpoint
SpecEndpointsRace == InitEndpointsRace /\ [][NextEndpointsRace]_vars

(***************************************************************************)
(* Properties of the IP pool calls.                                        *)
(***************************************************************************)
\* The keys under the pool root of a version whose value is the CIDR of pool.
KeysHolding(s, version, pool) ==
    {q \in ChildKeys(s, IP_POOLS_PATH(version)) :
        s[q].value = NetStr(cidr(pool))}
Configured(s, version, pool) == KeysHolding(s, version, pool) # {}

\* C1: when add_ip_pool(v, p') follows add_ip_pool(v, p) with p and p' of the
\* same CIDR, the second call writes nothing and exactly one entry under the
\* pool root of v holds that CIDR.
C1_AddTwiceOneEntry ==
    [][(/\ last.op = "add_ip_pool"
        /\ last'.op = "add_ip_pool"
        /\ last'.args[1] = last.args[1]
        /\ cidr(last'.args[2]) = cidr(last.args[2]))
       => (/\ store' = store
           /\ index' = index
           /\ Cardinality(KeysHolding(store', last'.args[1], last'.args[2])) = 1)]_vars

\* An add of 10.1/4 came back without writing: 10.0/4 was already stored, once.
C1_Witness ==
    /\ last.op = "add_ip_pool"
    /\ last.args = <<"v4", IPNetwork(4, 161, 4)>>
    /\ ~last.wrote
    /\ Cardinality(KeysHolding(store, "v4", IPNetwork(4, 160, 4))) = 1

C9_StoredPoolsNormalized ==
    \A version \in Versions :
        /\ \A n \in PoolEntries(store, version) :
               NetParse(n.value) = cidr(NetParse(n.value))
        /\ \A pools \in get_ip_pools(store, version) :
               \A q \in pools : q = cidr(q)
        /\ (last.op = "add_ip_pool" /\ last.args[1] = version)
               => Configured(store, version, last.args[2])

\* add_ip_pool("v4", 10.1/4) wrote, and the entry it made reads 10.0/4.
C9_Witness ==
    /\ last.op = "add_ip_pool"
    /\ last.args = <<"v4", IPNetwork(4, 161, 4)>>
    /\ last.wrote
    /\ \E n \in PoolEntries(store, "v4") : n.value = Str(<<".", 10, 0, 4>>)

\* C10: del_ip_pool(v, p) of a configured pool removes the key that holds it
\* and nothing else, and the pool (stored once) is no longer listed.
C10_DelRemovesOnlyThatKey ==
    [][(/\ last'.op = "del_ip_pool"
        /\ Configured(store, last'.args[1], last'.args[2]))
       => (/\ last'.ret = Return(None)
           /\ \E q \in KeysHolding(store, last'.args[1], last'.args[2]) :
                  store' = Restrict(store, DOMAIN store \ {q})
           /\ Cardinality(KeysHolding(store, last'.args[1], last'.args[2])) = 1
                  => \A pools \in get_ip_pools(store', last'.args[1]) :
                         ~InPools(last'.args[2], pools))]_vars

\* A pool of v4 was deleted while v4 and v6 each kept another pool.
C10_Witness ==
    /\ last.op = "del_ip_pool"
    /\ last.args[1] = "v4"
    /\ last.ret = Return(None)
    /\ last.wrote
    /\ ~Configured(store, "v4", last.args[2])
    /\ PoolEntries(store, "v4") # {}
    /\ PoolEntries(store, "v6") # {}

(***************************************************************************)
(* Properties of the profile calls.                                        *)
(***************************************************************************)
\* C4: delete_group(name) of a profile that does not exist returns without
\* raising and leaves the store as it was.
C4_DeleteMissingGroupNoop ==
    [][(/\ last'.op = "delete_group"
        /\ ~group_exists(store, last'.args[1]))
       => (last'.ret.status = "ok" /\ store' = store)]_vars

\* C5: after create_group(G) the tags of G are ["G"], its rules are the
\* default policy of G, and the profile holds nothing else.
C5_CreateGroupOverwrites ==
    last.op = "create_group" =>
        LET G == last.args[1]
        IN  /\ last.ret = Return(None)
            /\ ChildKeys(store, PROFILE_PATH(G)) = {TAGS_PATH(G), RULES_PATH(G)}
            /\ store[TAGS_PATH(G)].value = Json(<<G>>)
            /\ store[RULES_PATH(G)].value =
                 Json([id |-> G,
                       inbound_rules |-> <<[src_tag |-> G], [action |-> "deny"]>>,
                       outbound_rules |-> <<[action |-> "allow"]>>])

\* create_group("G1") replaced the edited tags and rules of G1.
C5_Witness ==
    /\ last.op = "create_group"
    /\ last.args = <<"G1">>
    /\ last.overwrote = {TAGS_PATH("G1"), RULES_PATH("G1")}

(***************************************************************************)
(* Properties of the endpoint calls.                                       *)
(***************************************************************************)
Hosts == {slot[1] : slot \in EndpointSlots}
EndpointIds == {slot[3] : slot \in EndpointSlots}
\* The places (host, container, endpoint id) where the store holds an endpoint
\* whose stored profile_id is name.
StoredWithProfile(s, name) ==
    {place \in Hosts \X Containers \X EndpointIds :
        /\ Exists(s, ENDPOINT_PATH(place[1], place[2], place[3]))
        /\ s[ENDPOINT_PATH(place[1], place[2], place[3])].value.obj.profile_id
               = Str(name)}

\* C6: get_group_members(G) lists exactly the ids of the stored endpoints, of
\* all hosts and containers, whose profile_id is G, each once per endpoint.
C6_MembersAreEndpointsOfProfile ==
    \A name \in Groups :
        LET places == StoredWithProfile(store, name)
            ids == {place[3] : place \in places}
        IN  get_group_members(store, name) =
                Return(List([id \in ids |->
                    Cardinality({place \in places : place[3] = id})]))

\* get_group_members("G1") listed e1 and e2 while the store also held an
\* endpoint of G2 and one without a profile.
C6_Witness ==
    /\ last.op = "get_group_members"
    /\ last.args = <<"G1">>
    /\ DOMAIN last.ret.value.items = {"e1", "e2"}
    /\ StoredWithProfile(store, "G2") # {}
    /\ \E slot \in EndpointSlots :
          /\ Exists(store, ENDPOINT_PATH(slot[1], slot[2], slot[3]))
          /\ store[ENDPOINT_PATH(slot[1], slot[2], slot[3])].value.obj.profile_id
                 = None

\* The endpoint ids stored under a container of the local host.
LocalEndpointIds(s, container_id) ==
    {e \in EndpointIds : Exists(s, ENDPOINT_PATH(hostname, container_id, e))}

\* C8: get_ep_id_from_cont(c) changes nothing; it returns the id of the one
\* endpoint of c, and raises "Container with ID c was not found." when c has no
\* endpoint listing.  add_workload_to_group and remove_workload_from_group of
\* such a container raise the same error and write nothing.
C8_ResolveEndpointId ==
    [][/\ last'.op = "get_ep_id_from_cont" =>
            LET c == last'.args[1]
            IN  /\ store' = store
                /\ ~Exists(store, LOCAL_ENDPOINTS_PATH(hostname, c))
                       => last'.ret = ContainerNotFound(c)
                /\ \A e \in EndpointIds :
                       LocalEndpointIds(store, c) = {e} => last'.ret = Return(Str(e))
       /\ \A c \in Containers :
            (/\ \/ last'.op = "add_workload_to_group" /\ last'.args[2] = c
                \/ last'.op = "remove_workload_from_group" /\ last'.args[1] = c
             /\ ~Exists(store, LOCAL_ENDPOINTS_PATH(hostname, c)))
            => (last'.ret = ContainerNotFound(c) /\ store' = store)]_vars

\* add_workload_to_group("G1", "c2") failed for the missing container c2 while
\* container c1 had an endpoint.
C8_Witness ==
    /\ last.op = "add_workload_to_group"
    /\ last.args = <<"G1", "c2">>
    /\ last.ret = ContainerNotFound("c2")
    /\ LocalEndpointIds(store, "c1") = {"e1"}
    /\ LocalEndpointIds(store, "c2") = {}

(***************************************************************************)
(* Properties of the interleaved calls.                                    *)
(***************************************************************************)
\* C2: an add_ip_pool that found its pool missing appends an entry for it
\* whatever was written since it looked, so two adds of one new pool that both
\* look before either writes leave two entries with the same CIDR.
C2_MissingThenAppends ==
    [][\A c \in Clients :
          (pc[c] = "append" /\ pc'[c] = "idle") =>
              Cardinality(KeysHolding(store', local[c].args[1], local[c].args[2]))
                = Cardinality(KeysHolding(store, local[c].args[1], local[c].args[2])) + 1]_vars

\* Two adds of 10.0/4 (one given as 10.1/4) ran together from a store without
\* it, and the store ended with two entries holding 10.0/4.
C2_Witness ==
    /\ Quiescent
    /\ Len(race.calls) = 2
    /\ \A n \in 1..2 :
          /\ race.calls[n].op = "add_ip_pool"
          /\ cidr(race.calls[n].args[2]) = IPNetwork(4, 160, 4)
    /\ race.calls[1].args[2] # race.calls[2].args[2]
    /\ ~Configured(race.start, "v4", IPNetwork(4, 160, 4))
    /\ Cardinality(KeysHolding(store, "v4", IPNetwork(4, 160, 4))) = 2

\* A race of add_workload_to_group(G, c) with remove_workload_from_group(c).
AddRemoveRace(calls) ==
    /\ Len(calls) = 2
    /\ \E n \in 1..2 :
          /\ calls[n].op = "add_workload_to_group"
          /\ calls[3 - n].op = "remove_workload_from_group"
          /\ calls[n].args[2] = calls[3 - n].args[1]

\* C7 as claimed: for a race of add_workload_to_group(G, c) with
\* remove_workload_from_group(c) on a container that has an endpoint, some
\* interleaving of the two calls ends with a store that neither serial
\* order of the two calls produces.
C7_SomeInterleavingInconsistent ==
    (/\ Quiescent
     /\ AddRemoveRace(race.calls)
     /\ LocalEndpointIds(race.start, ContainerOf(race.calls[1])) # {})
    => \E f \in Finals(race.start, index, Started(race.calls[1]),
                       Started(race.calls[2])) :
           f \notin SerialStores(race.start, index, race.calls[1], race.calls[2])

\* C7 as amended: when the two calls of such a race have returned, the store
\* is one that a serial order of the two calls produces.
C7_RaceEndsAsSerialOrder ==
    (Quiescent /\ AddRemoveRace(race.calls)) =>
        store \in SerialStores(race.start, index, race.calls[1], race.calls[2])

\* add_workload_to_group("G2", "c1") began first, remove_workload_from_group
\* ("c1") began while it ran, and the endpoint ended in G2: the add wrote last.
C7_Witness ==
    /\ Quiescent
    /\ race.calls = <<[op |-> "add_workload_to_group", args |-> <<"G2", "c1">>],
                      [op |-> "remove_workload_from_group", args |-> <<"c1">>]>>
    /\ LocalEndpointIds(race.start, "c1") = {"e1"}
    /\ store[ENDPOINT_PATH("h1", "c1", "e1")].value.obj.profile_id = Str("G2")

(***************************************************************************)
(* The value types on their own: Endpoint's codec and Rule's constructor,  *)
(* applied to values drawn from small sets.                                *)
(***************************************************************************)
Gateways(version) == {None, IPAddress(version, 0), IPAddress(version, 161)}
\* Every endpoint over two states, two profile ids, subsets of a few
\* networks and the gateways above.
EndpointValues ==
    {[ep_id |-> "e1", state |-> state, mac |-> "m1", profile_id |-> profile_id,
      ipv4_nets |-> nets4, ipv6_nets |-> nets6,
      ipv4_gateway |-> gw4, ipv6_gateway |-> gw6] :
        state \in {"active", "inactive"}, profile_id \in {None, Str("G1")},
        nets4 \in SUBSET {IPNetwork(4, 161, 4), IPNetwork(4, 82, 8)},
        nets6 \in SUBSET {IPNetwork(6, 161, 4)},
        gw4 \in Gateways(4), gw6 \in Gateways(6)}

\* Gateway fields of a payload: null, blank, a string that is no address,
\* and the string of an address.
BlankText == Str(<<>>)
BadAddrText == Str(<<"gateway">>)
GatewayTexts(version) ==
    {None, BlankText, BadAddrText, AddrStr(IPAddress(version, 161))}
Payloads ==
    {Json([to_json(EndpointArg("e1", profile_id)).obj EXCEPT
              !.ipv4_gateway = gw4, !.ipv6_gateway = gw6]) :
        profile_id \in ProfileIds,
        gw4 \in GatewayTexts(4), gw6 \in GatewayTexts(6)}

\* e.to_json()
ToJson ==
    \E ep \in EndpointValues :
        \E o \in {Outcome(store, index, Return(to_json(ep)))} :
            Call("to_json", <<ep>>, o)

\* Endpoint.from_json(ep_id, payload)
FromJson ==
    \E json_str \in Payloads :
        \E o \in {Outcome(store, index, from_json("e1", json_str))} :
            Call("from_json", <<"e1", json_str>>, o)

\* Endpoint.from_json(e.ep_id, e.to_json())
RoundTrip ==
    \E ep \in EndpointValues :
        \E o \in {Outcome(store, index, from_json(ep.ep_id, to_json(ep)))} :
            Call("round_trip", <<ep>>, o)

\* Rule(**kwargs) over the allowed field names and one that is not.
FieldNames == ALLOWED_KEYS \cup {"log"}
NewRule ==
    \E keys \in SUBSET FieldNames :
        \E o \in {Outcome(store, index, Rule([key \in keys |-> "any"]))} :
            Call("Rule", <<keys>>, o)

InitValues == InitWith({EmptyStore})
NextValues == ToJson \/ FromJson \/ RoundTrip \/ NewRule
SpecValues == InitValues /\ [][NextValues]_vars

\* C15: decoding what an endpoint encodes to gives the endpoint back, equal
\* in ep_id, state, mac, profile_id, the two network sets and the two
\* gateways.
C15_RoundTrip ==
    last.op = "round_trip" => last.ret = Return(last.args[1])

\* C16: from_json of a payload whose gateway string is no address returns an
\* endpoint with that gateway None and the other fields decoded.
C16_BadGatewayDropped ==
    (/\ last.op = "from_json"
     /\ BadAddrText \in {last.args[2].obj.ipv4_gateway,
                          last.args[2].obj.ipv6_gateway})
    => /\ last.ret.status = "ok"
       /\ last.args[2].obj.ipv4_gateway = BadAddrText
              => last.ret.value.ipv4_gateway = None
       /\ last.args[2].obj.ipv6_gateway = BadAddrText
              => last.ret.value.ipv6_gateway = None
       /\ last.ret.value.state = last.args[2].obj.state
       /\ last.ret.value.mac = last.args[2].obj.mac
       /\ last.ret.value.profile_id = last.args[2].obj.profile_id

\* C17: Rule(**kwargs) raises a KeyError when a field name is outside the
\* nine allowed ones, and otherwise is the mapping of exactly those fields;
\* a Rule that was made holds allowed fields only.
C17_RuleFields ==
    last.op = "Rule" =>
        /\ last.args[1] \subseteq ALLOWED_KEYS =>
               /\ last.ret.status = "ok"
               /\ DOMAIN last.ret.value.obj = last.args[1]
        /\ ~(last.args[1] \subseteq ALLOWED_KEYS) =>
               /\ last.ret.status = "raise"
               /\ last.ret.exc = "KeyError"
        /\ last.ret.status = "ok" =>
               DOMAIN last.ret.value.obj \subseteq ALLOWED_KEYS
C17_Witness ==
    /\ last.op = "Rule"
    /\ last.args[1] = {"src_tag", "log"}
    /\ last.ret.status = "raise"

(***************************************************************************)
(* Global config, hosts and the view of all hosts.                         *)
(***************************************************************************)
\* create_global_config(): only a missing config directory gets the defaults.
create_global_config(s) ==
    IF Exists(s, CONFIG_PATH) THEN s
    ELSE EtcdWrite(EtcdWrite(s, CONFIG_PATH \o <<"InterfacePrefix">>,
                             Str(<<IF_PREFIX>>)),
                   CONFIG_PATH \o <<"LogSeverityFile">>, Str(<<"DEBUG">>))

\* Mutant of create_host: the workload directory is made afresh.
create_host_new_workload(s, bird_ip, bird6_ip) ==
    LET host_path == HOST_PATH(hostname)
        s1 == EtcdWrite(s, host_path \o <<"bird_ip">>, bird_ip)
        s2 == EtcdWrite(s1, host_path \o <<"bird6_ip">>, bird6_ip)
        s3 == EtcdWrite(s2, host_path \o <<"config", "marker">>, Str(<<"created">>))
        workload_dir == host_path \o <<"workload">>
    IN  EtcdMkdir(EtcdDeleteTree(s3, workload_dir), workload_dir)

\* create_host(bird_ip, bird6_ip)
create_host(s, bird_ip, bird6_ip) ==
    LET host_path == HOST_PATH(hostname)
        s1 == EtcdWrite(s, host_path \o <<"bird_ip">>, bird_ip)
        s2 == EtcdWrite(s1, host_path \o <<"bird6_ip">>, bird6_ip)
        s3 == EtcdWrite(s2, host_path \o <<"config", "marker">>, Str(<<"created">>))
        workload_dir == host_path \o <<"workload">>
    IN  IF Exists(s3, workload_dir) THEN s3 ELSE EtcdMkdir(s3, workload_dir)

\* Mutant of remove_host: the KeyError of a missing host is not caught.
remove_host_uncaught(s, i) ==
    IF ~Exists(s, HOST_PATH(hostname))
    THEN Outcome(s, i, EtcdKeyNotFound(HOST_PATH(hostname)))
    ELSE Outcome(EtcdDeleteTree(s, HOST_PATH(hostname)), i, Return(None))

\* Mutant of remove_host: the subtree of all hosts is deleted.
remove_host_all_hosts(s, i) ==
    IF ~Exists(s, HOSTS_PATH) THEN Outcome(s, i, Return(None))
    ELSE Outcome(EtcdDeleteTree(s, HOSTS_PATH), i, Return(None))

\* remove_host(): the host's subtree is deleted; a missing host is passed over.
remove_host(s, i) ==
    IF ~Exists(s, HOST_PATH(hostname)) THEN Outcome(s, i, Return(None))
    ELSE Outcome(EtcdDeleteTree(s, HOST_PATH(hostname)), i, Return(None))

\* remove_all_data(): everything under /calico; a missing root is passed over.
remove_all_data(s) ==
    IF ~Exists(s, <<"calico">>) THEN s ELSE EtcdDeleteTree(s, <<"calico">>)

\* Mutant of remove_container: the directory of all containers is deleted.
remove_container_all_containers(s, i, container_id) ==
    LET container_path == CONTAINER_PATH(hostname, container_id)
        containers_path == HOST_PATH(hostname) \o <<"workload", "docker">>
    IN  IF ~Exists(s, container_path)
        THEN Outcome(s, i, EtcdKeyNotFound(container_path))
        ELSE Outcome(EtcdDeleteTree(s, containers_path), i, Return(None))

\* remove_container(container_id): the delete is not guarded.
remove_container(s, i, container_id) ==
    LET container_path == CONTAINER_PATH(hostname, container_id)
    IN  IF ~Exists(s, container_path)
        THEN Outcome(s, i, EtcdKeyNotFound(container_path))
        ELSE Outcome(EtcdDeleteTree(s, container_path), i, Return(None))

\* ep.ipv4_nets | ep.ipv6_nets: of two equal networks the left one stays.
NetUnion(a, b) == a \cup {net \in b : \A other \in a : ~NetEq(net, other)}

\* Mutant of the endpoint record: the IPv6 networks are left out of addrs.
EndpointRecord_v4_only(ep) ==
    [addrs |-> List({NetStr(net) : net \in ep.ipv4_nets}),
     mac |-> Str(ep.mac), state |-> ep.state]

\* ep_dict of get_hosts: addrs, mac and state of a decoded endpoint.
EndpointRecord(ep) ==
    [addrs |-> List({NetStr(net) : net \in NetUnion(ep.ipv4_nets, ep.ipv6_nets)}),
     mac |-> Str(ep.mac), state |-> ep.state]

\* The nodes of a listing that get_hosts takes for endpoints (nine pieces)
\* and for markers of a host (five to eight pieces).
HostEndpoints(nodes) == {n \in nodes : Len(Split(n.key)) = 9}
HostMarkers(nodes) ==
    {n \in nodes : Len(Split(n.key)) > 4 /\ Len(Split(n.key)) < 9}

\* Mutant of the tree builder: a marker of six or more pieces also makes the
\* entry of its container type.
HostTree_with_types(nodes) ==
    LET eps == HostEndpoints(nodes)
        typed == {n \in HostMarkers(nodes) : Len(Split(n.key)) >= 6}
        at(n, k) == Split(n.key)[k]
        under(h, t, c) ==
            {n \in eps : at(n, 4) = h /\ at(n, 6) = t /\ at(n, 7) = c}
    IN  [h \in {at(n, 4) : n \in eps \cup HostMarkers(nodes)} |->
          [t \in {at(n, 6) : n \in {m \in eps \cup typed : at(m, 4) = h}} |->
            [c \in {at(n, 7) : n \in {m \in eps : at(m, 4) = h /\ at(m, 6) = t}} |->
              [e \in {at(n, 9) : n \in under(h, t, c)} |->
                EndpointRecord(
                    from_json(e, (CHOOSE n \in under(h, t, c) :
                                     at(n, 9) = e).value).value)]]]]

\* The Vividict that the loop of get_hosts builds from nodes that all decode:
\* every marker and endpoint makes its host's entry, every endpoint its
\* record at host -> type -> container -> endpoint id.
HostTree(nodes) ==
    LET eps == HostEndpoints(nodes)
        at(n, k) == Split(n.key)[k]
        under(h, t, c) ==
            {n \in eps : at(n, 4) = h /\ at(n, 6) = t /\ at(n, 7) = c}
    IN  [h \in {at(n, 4) : n \in eps \cup HostMarkers(nodes)} |->
          [t \in {at(n, 6) : n \in {m \in eps : at(m, 4) = h}} |->
            [c \in {at(n, 7) : n \in {m \in eps : at(m, 4) = h /\ at(m, 6) = t}} |->
              [e \in {at(n, 9) : n \in under(h, t, c)} |->
                EndpointRecord(
                    from_json(e, (CHOOSE n \in under(h, t, c) :
                                     at(n, 9) = e).value).value)]]]]

\* Mutant of get_hosts: the KeyError of a missing hosts directory is not
\* caught.
get_hosts_uncaught(s) ==
    IF ~Exists(s, HOSTS_PATH) THEN {EtcdKeyNotFound(HOSTS_PATH)}
    ELSE {Return(Dict(HostTree(leaves_recursive(s, HOSTS_PATH))))}

\* get_hosts(): a KeyError (no hosts directory, or a payload without one of
\* its fields) ends the loop and what was built so far is returned; any
\* other error of the decoding leaves the call.
get_hosts(s) ==
    IF ~Exists(s, HOSTS_PATH) THEN {Return(Dict(<<>>))}
    ELSE LET nodes == leaves_recursive(s, HOSTS_PATH)
             decoded(n) ==
                 IF n.value.kind = "json"
                 THEN from_json(Split(n.key)[9], n.value)
                 ELSE Raise("TypeError", <<"expected string or buffer">>)
             bad == {n \in HostEndpoints(nodes) : decoded(n).status = "raise"}
         IN  IF bad = {} THEN {Return(Dict(HostTree(nodes)))}
             ELSE {IF decoded(b).exc = "KeyError"
                   THEN Return(Dict(HostTree(done))) ELSE decoded(b) :
                   b \in bad, done \in SUBSET (nodes \ bad)}

\* get_default_next_hops(hostname): IPAddress(text) takes an address of
\* either version; a text it refuses leaves its key out.
get_default_next_hops(s, h) ==
    LET host_path == HOST_PATH(h)
        ipv4 == s[host_path \o <<"bird_ip">>].value
        ipv6 == s[host_path \o <<"bird6_ip">>].value
        keys == (IF ValidAddrText(ipv4) THEN {4} ELSE {})
                   \cup (IF ValidAddrText(ipv6) THEN {6} ELSE {})
    IN  IF ~Exists(s, host_path \o <<"bird_ip">>)
        THEN EtcdKeyNotFound(host_path \o <<"bird_ip">>)
        ELSE IF ~Exists(s, host_path \o <<"bird6_ip">>)
        THEN EtcdKeyNotFound(host_path \o <<"bird6_ip">>)
        ELSE Return(Dict([k \in keys |->
                            AddrParse(IF k = 4 THEN ipv4 ELSE ipv6)]))

(***************************************************************************)
(* The host calls, one at a time.                                          *)
(***************************************************************************)
\* (bird_ip, bird6_ip) as callers pass them: both set, no IPv6 address, the
\* two the wrong way round, and texts that are no addresses.
HostAddrArgs ==
    {<<AddrStr(IPAddress(4, 161)), AddrStr(IPAddress(6, 161))>>,
     <<AddrStr(IPAddress(4, 161)), BlankText>>,
     <<AddrStr(IPAddress(6, 161)), AddrStr(IPAddress(4, 161))>>,
     <<BadAddrText, BadAddrText>>}
HostNames == {"h1", "h2"}
HostSlots == {<<"h1", "c1", "e1">>, <<"h1", "c2", "e2">>, <<"h2", "c1", "e1">>}
\* Two endpoints to write: one with an IPv4 network and a profile, one that
\* is inactive with networks of both versions and no profile.
HostEndpointArgs(ep_id) ==
    {EndpointArg(ep_id, Str("G1")),
     [Endpoint(ep_id, "inactive", "m2") EXCEPT
         !.ipv4_nets = {IPNetwork(4, 161, 4)},
         !.ipv6_nets = {IPNetwork(6, 161, 4)}]}

CreateGlobalConfig ==
    \E o \in {Outcome(create_global_config(store), index, Return(None))} :
        Call("create_global_config", <<>>, o)

CreateHost ==
    \E addrs \in HostAddrArgs :
        \E o \in {Outcome(create_host(store, addrs[1], addrs[2]), index,
                          Return(None))} :
            Call("create_host", addrs, o)

RemoveHost ==
    \E o \in {remove_host(store, index)} : Call("remove_host", <<>>, o)

RemoveAllData ==
    \E o \in {Outcome(remove_all_data(store), index, Return(None))} :
        Call("remove_all_data", <<>>, o)

RemoveContainer ==
    \E container_id \in {"c1", "c2"} :
        \E o \in {remove_container(store, index, container_id)} :
            Call("remove_container", <<container_id>>, o)

SetHostEndpoint ==
    \E slot \in HostSlots :
        \E endpoint \in HostEndpointArgs(slot[3]) :
            \E o \in {Outcome(set_endpoint(store, slot[1], slot[2], endpoint),
                              index, Return(None))} :
                Call("set_endpoint", <<slot[1], slot[2], endpoint>>, o)

GetHosts ==
    \E r \in get_hosts(store) :
        \E o \in {Outcome(store, index, r)} : Call("get_hosts", <<>>, o)

GetDefaultNextHops ==
    \E h \in HostNames :
        \E o \in {Outcome(store, index, get_default_next_hops(store, h))} :
            Call("get_default_next_hops", <<h>>, o)

\* A store other clients have filled: a profile, a pool, the global config
\* and an endpoint of the host h2.
SharedStore ==
    LET s1 == (CHOOSE o \in create_group(EmptyStore, 1, "G1") : TRUE).store
        s2 == (CHOOSE o \in add_ip_pool(s1, 1, "v4", IPNetwork(4, 160, 4)) :
                  TRUE).store
        s3 == create_global_config(s2)
    IN  set_endpoint(s3, "h2", "c1", EndpointArg("e1", Str("G1")))

InitHosts == InitWith({EmptyStore, SharedStore})
NextHosts ==
    \/ CreateGlobalConfig
    \/ CreateHost
    \/ RemoveHost
    \/ RemoveAllData
    \/ RemoveContainer
    \/ SetHostEndpoint
    \/ GetHosts
    \/ GetDefaultNextHops
    \/ GetGroupMembers
SpecHosts == InitHosts /\ [][NextHosts]_vars

(***************************************************************************)
(* Properties of the host calls.                                           *)
(***************************************************************************)
\* C11: remove_host() of a host that has no key in the store, and
\* remove_all_data() of a store without /calico, return None without raising
\* and leave the store as it was.
C11_RemoveMissingNoop ==
    [][(\/ last'.op = "remove_host" /\ ~Exists(store, HOST_PATH(hostname))
        \/ last'.op = "remove_all_data" /\ ~Exists(store, <<"calico">>))
       => (last'.ret = Return(None) /\ store' = store)]_vars

\* remove_host() came back from a store that holds another host but not h1.
C11_Witness ==
    /\ last.op = "remove_host"
    /\ last.ret = Return(None)
    /\ ~last.wrote
    /\ ~Exists(store, HOST_PATH(hostname))
    /\ Exists(store, HOST_PATH("h2"))

\* The ids get_group_members is to list once the local host is gone: the
\* endpoints of the other hosts in s whose stored profile_id is name.
MembersElsewhere(s, name) ==
    LET hits == {n \in EndpointLeaves(s) :
                    /\ Split(n.key)[4] # hostname
                    /\ n.value.obj.profile_id = Str(name)}
        ids == {Split(n.key)[9] : n \in hits}
    IN  [id \in ids |-> Cardinality({n \in hits : Split(n.key)[9] = id})]

\* C12: remove_host() removes every key under the local host's path and no
\* other key; afterwards get_hosts has no entry for the host and
\* get_group_members lists the endpoints of the other hosts only.
C12_RemoveHostFrame ==
    [][last'.op = "remove_host" =>
        /\ last'.ret = Return(None)
        /\ store' = Restrict(store, {q \in DOMAIN store :
                                        ~IsPrefix(HOST_PATH(hostname), q)})
        /\ \A r \in get_hosts(store') :
               r.status = "ok" /\ hostname \notin DOMAIN r.value.d
        /\ \A name \in Groups :
               get_group_members(store', name)
                   = Return(List(MembersElsewhere(store, name)))]_vars

\* remove_host() removed an endpoint of h1 that had the profile G1, while the
\* profile, a pool, the config and the endpoint of h2 stayed.
C12_Witness ==
    /\ last.op = "remove_host"
    /\ ENDPOINT_PATH("h1", "c1", "e1") \in last.removed
    /\ Exists(store, TAGS_PATH("G1"))
    /\ PoolEntries(store, "v4") # {}
    /\ Exists(store, CONFIG_PATH \o <<"InterfacePrefix">>)
    /\ Exists(store, ENDPOINT_PATH("h2", "c1", "e1"))

\* C14: create_host(bird_ip, bird6_ip) stores the two values, leaves a
\* workload directory, and changes no key at or under an existing workload
\* directory: containers and endpoints stay as they were.
C14_CreateHostKeepsWorkload ==
    [][last'.op = "create_host" =>
        LET host_path == HOST_PATH(hostname)
            workload_dir == host_path \o <<"workload">>
        IN  /\ last'.ret = Return(None)
            /\ store'[host_path \o <<"bird_ip">>] = LeafNode(last'.args[1])
            /\ store'[host_path \o <<"bird6_ip">>] = LeafNode(last'.args[2])
            /\ Exists(store', workload_dir)
            /\ store'[workload_dir].dir
            /\ Subtree(store', workload_dir)
                   = Subtree(store, workload_dir) \cup {workload_dir}
            /\ \A q \in Subtree(store, workload_dir) : store'[q] = store[q]]_vars

\* create_host changed bird_ip of a host that has an endpoint.
C14_Witness ==
    /\ last.op = "create_host"
    /\ HOST_PATH(hostname) \o <<"bird_ip">> \in last.overwrote
    /\ Exists(store, ENDPOINT_PATH("h1", "c1", "e1"))
    /\ Exists(store, ENDPOINT_PATH("h1", "c2", "e2"))

(***************************************************************************)
(* Properties of the view of all hosts and of the next hops.               *)
(***************************************************************************)
DockerDir(h) == HOST_PATH(h) \o <<"workload", "docker">>
\* The listing of the hosts holds markers of h1 only (no key of nine
\* pieces), one of them at or under the directory of the type docker.
OnlyDockerMarkers(s) ==
    /\ Exists(s, HOSTS_PATH)
    /\ LET nodes == leaves_recursive(s, HOSTS_PATH)
       IN  /\ \A n \in nodes : n \in HostMarkers(nodes) /\ Split(n.key)[4] = "h1"
           /\ \E n \in nodes : IsPrefix(DockerDir("h1"), n.key)

\* C18 as claimed: from a listing that holds only markers of h1 and its type
\* docker, get_hosts() returns {h1: {docker: {}}}.
C18_MarkersGiveTypeEntry ==
    (last.op = "get_hosts" /\ OnlyDockerMarkers(store))
        => last.ret = Return(Dict([h \in {"h1"} |-> [t \in {"docker"} |-> <<>>]]))

\* C18 as amended: from such a listing get_hosts() returns {h1: {}}; the
\* host has its entry and the entry is empty.
C18_MarkersGiveHostEntry ==
    (last.op = "get_hosts" /\ OnlyDockerMarkers(store))
        => last.ret = Return(Dict([h \in {"h1"} |-> <<>>]))

\* get_hosts() ran on a store whose only leaf is the empty directory docker
\* of h1.
C18_Witness ==
    /\ last.op = "get_hosts"
    /\ last.ret.status = "ok"
    /\ DOMAIN last.ret.value.d = {"h1"}
    /\ Exists(store, DockerDir("h1"))
    /\ leaves_recursive(store, HOSTS_PATH) = {Node(store, DockerDir("h1"))}

\* C19: get_hosts() holds, for every key of nine pieces under the hosts
\* root, at host -> type -> container -> endpoint id the state, the mac and
\* the IPv4 and IPv6 networks of the stored payload, and holds no record
\* without such a key; an endpoint that set_endpoint(h, c, e) wrote is found
\* at h -> docker -> c -> e.ep_id.
C19_HostsViewMatchesStore ==
    /\ last.op = "get_hosts" =>
        /\ last.ret.status = "ok"
        /\ Exists(store, HOSTS_PATH) =>
             \A n \in HostEndpoints(leaves_recursive(store, HOSTS_PATH)) :
               LET k == Split(n.key)
                   hosts == last.ret.value.d
               IN  /\ k[4] \in DOMAIN hosts
                   /\ k[6] \in DOMAIN hosts[k[4]]
                   /\ k[7] \in DOMAIN hosts[k[4]][k[6]]
                   /\ k[9] \in DOMAIN hosts[k[4]][k[6]][k[7]]
                   /\ hosts[k[4]][k[6]][k[7]][k[9]] =
                        [addrs |-> List(n.value.obj.ipv4_nets
                                            \cup n.value.obj.ipv6_nets),
                         mac |-> Str(n.value.obj.mac),
                         state |-> n.value.obj.state]
        /\ LET hosts == last.ret.value.d
           IN  \A h \in DOMAIN hosts : \A t \in DOMAIN hosts[h] :
                 \A c \in DOMAIN hosts[h][t] : \A e \in DOMAIN hosts[h][t][c] :
                   Exists(store, HOST_PATH(h) \o <<"workload", t, c, "endpoint", e>>)
    /\ last.op = "set_endpoint" =>
        \A r \in get_hosts(store) :
            /\ r.status = "ok"
            /\ r.value.d[last.args[1]]["docker"][last.args[2]][last.args[3].ep_id] =
                 [addrs |-> List({NetStr(net) : net \in last.args[3].ipv4_nets
                                                    \cup last.args[3].ipv6_nets}),
                  mac |-> Str(last.args[3].mac),
                  state |-> last.args[3].state]

\* get_hosts() returned the inactive endpoint e2 of h1 with its two networks,
\* next to an endpoint of h2.
C19_Witness ==
    /\ last.op = "get_hosts"
    /\ last.ret.status = "ok"
    /\ DOMAIN last.ret.value.d = {"h1", "h2"}
    /\ Exists(store, ENDPOINT_PATH("h2", "c1", "e1"))
    /\ Exists(store, ENDPOINT_PATH("h1", "c2", "e2"))
    /\ "e1" \in DOMAIN last.ret.value.d["h2"]["docker"]["c1"]
    /\ last.ret.value.d["h1"]["docker"]["c2"]["e2"].state = "inactive"
    /\ Cardinality(last.ret.value.d["h1"]["docker"]["c2"]["e2"].addrs.items) = 2

\* The version of the address a stored text is: "." separates an IPv4
\* address, ":" an IPv6 address.
IsAddrOfVersion(v, version) ==
    ValidAddrText(v) /\ v.text[1] = (IF version = 4 THEN "." ELSE ":")

\* C20: get_default_next_hops(h) of a host that has bird_ip and bird6_ip
\* returns a mapping with key 4 only when bird_ip is a valid IPv4 address
\* and key 6 only when bird6_ip is a valid IPv6 address, each address of its
\* key's version.
C20_NextHopsOfOwnVersion ==
    (/\ last.op = "get_default_next_hops"
     /\ Exists(store, HOST_PATH(last.args[1]) \o <<"bird_ip">>)
     /\ Exists(store, HOST_PATH(last.args[1]) \o <<"bird6_ip">>))
    => /\ last.ret.status = "ok"
       /\ 4 \in DOMAIN last.ret.value.d =>
              IsAddrOfVersion(store[HOST_PATH(last.args[1]) \o <<"bird_ip">>].value, 4)
       /\ 6 \in DOMAIN last.ret.value.d =>
              IsAddrOfVersion(store[HOST_PATH(last.args[1]) \o <<"bird6_ip">>].value, 6)
       /\ \A k \in DOMAIN last.ret.value.d : last.ret.value.d[k].version = k

(***************************************************************************)
(* create_global_config and remove_all_data of two clients, interleaved.   *)
(***************************************************************************)
StartCreateGlobalConfig ==
    \E c \in Clients : pc[c] = "idle" /\ Begin(c, "create_global_config", <<>>)
StartRemoveAllData ==
    \E c \in Clients : pc[c] = "idle" /\ Begin(c, "remove_all_data", <<>>)
ConfigRead == \E c \in Clients : pc[c] = "config" /\ StepAt(c, "config")
ConfigSetPrefix == \E c \in Clients : pc[c] = "prefix" /\ StepAt(c, "prefix")
ConfigSetSeverity == \E c \in Clients : pc[c] = "severity" /\ StepAt(c, "severity")
RemoveAllDataDelete == \E c \in Clients : pc[c] = "wipe" /\ StepAt(c, "wipe")

InitConfigRace == InitWith({EmptyStore})
NextConfigRace ==
    \/ StartCreateGlobalConfig
    \/ StartRemoveAllData
    \/ ConfigRead
    \/ ConfigSetPrefix
    \/ ConfigSetSeverity
    \/ RemoveAllDataDelete
SpecConfigRace == InitConfigRace /\ [][NextConfigRace]_vars

ConfigDefaults ==
    {CONFIG_PATH \o <<"InterfacePrefix">>, CONFIG_PATH \o <<"LogSeverityFile">>}

\* C13: when create_global_config(), run with no other call beside it,
\* returns, both defaults exist under the config root, a value that was
\* there before is the same, and a second call would change nothing.
C13_ConfigDefaultsEnsured ==
    [][(/\ ~Quiescent
        /\ Quiescent'
        /\ race'.calls = <<[op |-> "create_global_config", args |-> <<>>]>>)
       => (/\ \A q \in ConfigDefaults : Exists(store', q)
           /\ \A q \in ConfigDefaults \cap DOMAIN race'.start :
                  store'[q] = race'.start[q]
           /\ create_global_config(store') = store')]_vars

(***************************************************************************)
(* The listing calls, on stores whose roots come and go.                   *)
(***************************************************************************)
InitListings == InitWith({EmptyStore, SharedStore})
NextListings ==
    \/ GetIpPools
    \/ GetGroups
    \/ GetGroupMembers
    \/ GetHosts
    \/ CreateGroup
    \/ DeleteGroup
    \/ DelIpPool
    \/ RemoveHost
    \/ RemoveAllData
SpecListings == InitListings /\ [][NextListings]_vars

\* C21: a listing call whose root path is not in the store returns an empty
\* result and does not raise: get_ip_pools(v) an empty list, get_groups() an
\* empty set, get_group_members(name) an empty list, get_hosts() an empty
\* mapping.
C21_MissingRootListsEmpty ==
    /\ (last.op = "get_ip_pools" /\ ~Exists(store, IP_POOLS_PATH(last.args[1])))
           => last.ret = Return(List({}))
    /\ (last.op = "get_groups" /\ ~Exists(store, PROFILES_PATH))
           => last.ret = Return(List({}))
    /\ (last.op = "get_group_members" /\ ~Exists(store, ALL_ENDPOINTS_PATH))
           => last.ret = Return(List(<<>>))
    /\ (last.op = "get_hosts" /\ ~Exists(store, HOSTS_PATH))
           => last.ret = Return(Dict(<<>>))

\* get_hosts() returned {} from a store that has a profile but no hosts root.
C21_Witness ==
    /\ last.op = "get_hosts"
    /\ last.ret = Return(Dict(<<>>))
    /\ ~Exists(store, HOSTS_PATH)
    /\ Exists(store, TAGS_PATH("G1"))

\* C22: create_group(n) adds n to what get_groups() returns and
\* delete_group(n) takes n out of it, other names staying as they were; and
\* in the store a call leaves, group_exists(n) holds exactly for the names
\* in get_groups().
C22_GroupsAreCreatedNotDeleted ==
    [][/\ last'.op = "create_group" =>
              get_groups(store') = get_groups(store) \cup {last'.args[1]}
       /\ last'.op = "delete_group" =>
              get_groups(store') = get_groups(store) \ {last'.args[1]}
       /\ last'.op \notin {"create_group", "delete_group"} =>
              get_groups(store') = get_groups(store)
       /\ \A name \in GroupNames :
              group_exists(store', name) <=> name \in get_groups(store')]_vars

\* delete_group("G1") returned and left G2 and G3 as the groups.
C22_Witness ==
    /\ last.op = "delete_group"
    /\ last.args = <<"G1">>
    /\ last.ret = Return(None)
    /\ get_groups(store) = {"G2", "G3"}
    /\ ~group_exists(store, "G1")

\* C23: remove_container(c) removes the keys at or under the path of
\* container c of the local host and no other key, and get_ep_id_from_cont(c)
\* then raises "Container with ID c was not found.".
C23_RemoveContainerFrame ==
    [][last'.op = "remove_container" =>
        /\ store' = Restrict(store,
                        {q \in DOMAIN store :
                            ~IsPrefix(CONTAINER_PATH(hostname, last'.args[1]), q)})
        /\ get_ep_id_from_cont(store', last'.args[1])
               = {ContainerNotFound(last'.args[1])}]_vars

\* remove_container("c1") removed the endpoint of c1 while the endpoint of
\* c2, the endpoint of the host h2, the profile and the pool stayed.
C23_Witness ==
    /\ last.op = "remove_container"
    /\ last.args = <<"c1">>
    /\ last.ret = Return(None)
    /\ ENDPOINT_PATH("h1", "c1", "e1") \in last.removed
    /\ Exists(store, ENDPOINT_PATH("h1", "c2", "e2"))
    /\ Exists(store, ENDPOINT_PATH("h2", "c1", "e1"))
    /\ Exists(store, TAGS_PATH("G1"))
    /\ PoolEntries(store, "v4") # {}

(***************************************************************************)
(* Endpoint payloads that another writer left without one of their fields. *)
(***************************************************************************)
\* get_endpoint(hostname, container_id, endpoint_id)
GetEndpoint ==
    \E slot \in HostSlots :
        \E o \in {Outcome(store, index,
                          get_endpoint(store, slot[1], slot[2], slot[3]))} :
            Call("get_endpoint", slot, o)

\* The payload of an endpoint without the field name.
PayloadWithout(ep, name) ==
    LET obj == to_json(ep).obj
    IN  Json([field \in DOMAIN obj \ {name} |-> obj[field]])

\* Stores in which the endpoint e1 of container c1 of h1 lacks a field, alone
\* or next to well-formed endpoints of c2 and of the host h2.
MalformedStores ==
    LET others == set_endpoint(
                      set_endpoint(EmptyStore, "h2", "c1", EndpointArg("e1", Str("G1"))),
                      "h1", "c2", EndpointArg("e2", Str("G1")))
    IN  {EtcdWrite(base, ENDPOINT_PATH("h1", "c1", "e1"),
                   PayloadWithout(EndpointArg("e1", Str("G1")), name)) :
            base \in {EmptyStore, others},
            name \in {"state", "mac", "profile_id"}}

InitMalformed == InitWith(MalformedStores)
NextMalformed ==
    \/ GetEndpoint
    \/ GetGroupMembers
    \/ GetHosts
    \/ AddWorkloadToGroup
    \/ RemoveWorkloadFromGroup
    \/ SetHostEndpoint
SpecMalformed == InitMalformed /\ [][NextMalformed]_vars

\* The keys of the endpoints in s whose payload does not decode for want of
\* a field.
MissingField(r) ==
    r.status = "raise" /\ r.exc = "KeyError" /\ r.msg[1] = "missing field"
MalformedKeys(s) ==
    IF ~Exists(s, HOSTS_PATH) THEN {}
    ELSE {n.key : n \in {m \in HostEndpoints(leaves_recursive(s, HOSTS_PATH)) :
                            MissingField(from_json(Split(m.key)[9], m.value))}}

\* C24: a call that decodes a payload without a required field raises the
\* error of the decoding: get_endpoint of that endpoint, get_group_members
\* and get_hosts whenever the listing holds one, add_workload_to_group and
\* remove_workload_from_group of a container whose endpoints are such.
C24_DecodeErrorPropagates ==
    [][/\ (/\ last'.op = "get_endpoint"
           /\ ENDPOINT_PATH(last'.args[1], last'.args[2], last'.args[3])
                  \in MalformedKeys(store))
          => MissingField(last'.ret)
       /\ (last'.op \in {"get_group_members", "get_hosts"}
           /\ MalformedKeys(store) # {})
          => MissingField(last'.ret)
       /\ (/\ last'.op \in {"add_workload_to_group", "remove_workload_from_group"}
           /\ LET c == last'.args[Len(last'.args)]
              IN  /\ LocalEndpointIds(store, c) # {}
                  /\ \A e \in LocalEndpointIds(store, c) :
                         ENDPOINT_PATH(hostname, c, e) \in MalformedKeys(store))
          => (MissingField(last'.ret) /\ store' = store)]_vars

\* C25: no call ends with the store's own not-found error: a call that
\* raises gives an error of the facade that names the host, container or
\* pool.
C25_NoRawNotFound ==
    last.ret.status = "raise" => last.ret.msg[1] # "Key not found"

(***************************************************************************)
(* Profile changes of one client while another client writes or removes    *)
(* the endpoint.                                                           *)
(***************************************************************************)
\* The endpoint e1 as another client writes it: inactive, with another mac.
ChangedEndpoint ==
    [Endpoint("e1", "inactive", "m2") EXCEPT
        !.profile_id = Str("G1"), !.ipv4_nets = {IPNetwork(4, 161, 8)}]

StartAssign ==
    \E c \in Clients, group_name \in Groups :
        pc[c] = "idle" /\ Begin(c, "add_workload_to_group", <<group_name, "c1">>)
StartUnassign ==
    \E c \in Clients :
        pc[c] = "idle" /\ Begin(c, "remove_workload_from_group", <<"c1">>)
StartSetEndpoint ==
    \E c \in Clients :
        pc[c] = "idle" /\ Begin(c, "set_endpoint", <<"h1", "c1", ChangedEndpoint>>)
StartRemoveContainer ==
    \E c \in Clients : pc[c] = "idle" /\ Begin(c, "remove_container", <<"c1">>)
StartRemoveHost ==
    \E c \in Clients : pc[c] = "idle" /\ Begin(c, "remove_host", <<>>)
PutEndpoint == \E c \in Clients : pc[c] = "put" /\ StepAt(c, "put")
RemoveContainerDelete == \E c \in Clients : pc[c] = "unlink" /\ StepAt(c, "unlink")
RemoveHostDelete == \E c \in Clients : pc[c] = "unhost" /\ StepAt(c, "unhost")

\* The endpoint e1 of container c1 on the local host, alone and next to an
\* endpoint of the same id on the host h2.
LifecycleStores ==
    LET payload == to_json(EndpointArg("e1", Str("G1")))
        one == EtcdWrite(EmptyStore, ENDPOINT_PATH("h1", "c1", "e1"), payload)
    IN  {one, EtcdWrite(one, ENDPOINT_PATH("h2", "c1", "e1"), payload)}

InitLifecycleRace == InitWith(LifecycleStores)
NextLifecycleRace ==
    \/ StartAssign
    \/ StartUnassign
    \/ StartSetEndpoint
    \/ StartRemoveContainer
    \/ StartRemoveHost
    \/ ResolveEndpointId
    \/ ProfileGetEndpoint
    \/ ProfileSetEndpoint
    \/ PutEndpoint
    \/ RemoveContainerDelete
    \/ RemoveHostDelete
SpecLifecycleRace == InitLifecycleRace /\ [][NextLifecycleRace]_vars

(***************************************************************************)
(* Properties of the profile changes beside writes and removals.           *)
(***************************************************************************)
\* How often get_group_members(name) lists id, and the stored endpoint
\* records of that id.
Listed(s, name, id) ==
    LET items == get_group_members(s, name).value.items
    IN  IF id \in DOMAIN items THEN items[id] ELSE 0
RecordsOf(s, id) == {n.key : n \in {m \in EndpointLeaves(s) : Split(m.key)[9] = id}}
RecordsWith(s, id, name) ==
    {q \in RecordsOf(s, id) : s[q].value.obj.profile_id = Str(name)}

\* C26 as claimed: for every endpoint id at most one profile G has it in
\* get_group_members(G).
C26_IdInAtMostOneProfile ==
    \A id \in EndpointIds :
        Cardinality({name \in Groups : Listed(store, name, id) > 0}) <= 1

\* C26 as amended: every stored endpoint record (host, container, id) is
\* listed by get_group_members of at most one profile, so that the profiles
\* together list an id no more often than records carry it; and the record
\* that add_workload_to_group(G', c) writes is listed under G' and under no
\* other profile.
C26_RecordInAtMostOneProfile ==
    [][/\ \A id \in EndpointIds :
              Listed(store', "G1", id) + Listed(store', "G2", id)
                  <= Cardinality(RecordsOf(store', id))
       /\ \A c \in Clients :
              (/\ pc[c] = "set"
               /\ pc'[c] = "idle"
               /\ local[c].op = "add_workload_to_group")
              => LET id == local[c].tmp.ep_id
                     path == ENDPOINT_PATH(hostname, ContainerOf(local[c]), id)
                 IN  /\ path \in RecordsWith(store', id, local[c].args[1])
                     /\ \A name \in Groups :
                            Listed(store', name, id)
                                = Cardinality(RecordsWith(store', id, name))]_vars

\* add_workload_to_group("G2", "c1") moved e1 of h1 from G1 to G2 while the
\* endpoint e1 of h2 stayed in G1: both profiles list the id e1, once each.
C26_Witness ==
    /\ Quiescent
    /\ last.op = "add_workload_to_group"
    /\ last.args = <<"G2", "c1">>
    /\ last.ret = Return(None)
    /\ Exists(store, ENDPOINT_PATH("h1", "c1", "e1"))
    /\ Listed(store, "G1", "e1") = 1
    /\ Listed(store, "G2", "e1") = 1
    /\ RecordsWith(store, "e1", "G1") = {ENDPOINT_PATH("h2", "c1", "e1")}

\* The store s with the profile_id of the endpoint at path set to profile_id
\* and nothing else changed.
WithProfile(s, path, profile_id) ==
    [s EXCEPT ![path] =
        LeafNode(Json([s[path].value.obj EXCEPT !.profile_id = profile_id]))]

C28_WriteRecreatesEndpoint ==
    [][/\ \A c \in Clients :
              (pc[c] = "set" /\ pc'[c] = "idle")
              => /\ last'.ret = Return(None)
                 /\ Exists(store', ENDPOINT_PATH(hostname, ContainerOf(local[c]),
                                                 local[c].tmp.ep_id))
       /\ \A c \in Clients :
              (/\ pc[c] = "unlink"
               /\ pc'[c] = "idle"
               /\ Exists(store, CONTAINER_PATH(hostname, local[c].args[1])))
              => /\ last'.ret = Return(None)
                 /\ ~Exists(store', CONTAINER_PATH(hostname, local[c].args[1]))]_vars

\* add_workload_to_group("G2", "c1") and remove_container("c1") have both
\* returned, the assignment last and without error, and the endpoint e1 of
\* c1 is in the store: the delete fell between the read and the write.
C28_Witness ==
    /\ Quiescent
    /\ race.calls = <<[op |-> "add_workload_to_group", args |-> <<"G2", "c1">>],
                      [op |-> "remove_container", args |-> <<"c1">>]>>
    /\ last.op = "add_workload_to_group"
    /\ last.ret = Return(None)
    /\ Exists(store, ENDPOINT_PATH("h1", "c1", "e1"))
    /\ store[ENDPOINT_PATH("h1", "c1", "e1")].value.obj.profile_id = Str("G2")

(***************************************************************************)
(* Profiles and the endpoints that reference them.                         *)
(***************************************************************************)
InitReferences == InitWith({SeedStore, SharedStore})
NextReferences ==
    \/ AddWorkloadToGroup
    \/ CreateGroup
    \/ DeleteGroup
    \/ GetGroupMembers
    \/ GroupExists
SpecReferences == InitReferences /\ [][NextReferences]_vars

\* The container has exactly one endpoint on the local host, so that
\* get_ep_id_from_cont returns its id.
Resolves(s, container_id) ==
    \E r \in get_ep_id_from_cont(s, container_id) : r.status = "ok"

\* C29: add_workload_to_group(G, c) of a container that resolves to an
\* endpoint returns None and stores profile_id = G, whether the profile G
\* exists or not; delete_group(G) leaves every endpoint record and so every
\* profile's members as they were, and when it returns None the profile G
\* does not exist.
C29_ReferenceNotEnforced ==
    [][/\ (/\ last'.op = "add_workload_to_group"
           /\ Resolves(store, last'.args[2]))
          => /\ last'.ret = Return(None)
             /\ \E e \in LocalEndpointIds(store, last'.args[2]) :
                    store' = WithProfile(store,
                                 ENDPOINT_PATH(hostname, last'.args[2], e),
                                 Str(last'.args[1]))
       /\ last'.op = "delete_group"
          => /\ EndpointLeaves(store') = EndpointLeaves(store)
             /\ \A name \in Groups :
                    get_group_members(store', name) = get_group_members(store, name)
             /\ last'.ret = Return(None) => ~group_exists(store', last'.args[1])]_vars

\* delete_group("G2") has returned None, so the profile G2 does not exist,
\* and get_group_members("G2") still returns e1: an endpoint that
\* add_workload_to_group put in G2.
C29_Witness ==
    /\ last.op = "delete_group"
    /\ last.args = <<"G2">>
    /\ last.ret = Return(None)
    /\ ~group_exists(store, "G2")
    /\ get_group_members(store, "G2").status = "ok"
    /\ "e1" \in DOMAIN get_group_members(store, "G2").value.items

\* add_workload_to_group("G2", "c1") has returned None with e1 in G2 and no
\* profile G2 in the store.
C29_AssignedToMissingProfile ==
    /\ last.op = "add_workload_to_group"
    /\ last.args = <<"G2", "c1">>
    /\ last.ret = Return(None)
    /\ ~group_exists(store, "G2")
    /\ store[ENDPOINT_PATH("h1", "c1", "e1")].value.obj.profile_id = Str("G2")

====
